---- MODULE Spec2Model ----
(***************************************************************************)
(* Alpha-Council: the debate-and-verdict pipeline of src/agent.            *)
(*                                                                         *)
(* One Case (the LangGraph AgentState dict) is threaded through the six    *)
(* nodes of src/agent/graph.py.  The text-generation collaborator          *)
(* (llm.invoke) and the news search (get_market_news) are the environment: *)
(* every reply they may give is drawn from a finite set.                   *)
(*                                                                         *)
(* Numbers.  Python floats are modelled exactly, as integers counting      *)
(* thousandths: U(80) is 80.0, 500 is 0.5.  The reply sets only hold       *)
(* values on which every product the code forms is a whole number of       *)
(* thousandths, so no rounding is modelled.                                *)
(*                                                                         *)
(* Text.  Strings are TLA+ strings, read character by character with Len   *)
(* and SubSeq; the regular expressions of the code are written out as      *)
(* predicates on positions.                                                *)
(***************************************************************************)
EXTENDS Integers, Sequences, FiniteSets, TLC

VARIABLES
    pc,         \* the node the graph runs next, "END", or "error" (a node raised)
    state,      \* the AgentState dict: key -> value, keys present once written
    trace,      \* the nodes that have completed, in order
    llm_calls,  \* node -> number of llm.invoke calls it has made
    heard,      \* what llm.invoke did in the node that ran last (NotCalled if no call)
    news_seen   \* risk_manager's locals news_data and evidence_data, once it has run

vars == <<pc, state, trace, llm_calls, heard, news_seen>>

(***************************************************************************)
(* Python values                                                           *)
(***************************************************************************)

\* n units as thousandths: U(72) is the float 72.0
U(n) == n * 1000

\* JSON values as the collaborator may put them in its reply
JNum(n)    == [t |-> "num", n |-> n, s |-> ""]       \* a number, in thousandths
JNumStr(n) == [t |-> "numstr", n |-> n, s |-> ""]    \* a string float() can read, e.g. "85"
JStr(s)    == [t |-> "str", n |-> 0, s |-> s]        \* any other string
JNull      == [t |-> "null", n |-> 0, s |-> ""]      \* null / None

\* dict.get(key, default)
Get(d, k, default) == IF k \in DOMAIN d THEN d[k] ELSE default

\* the dict with no key
EmptyDict == [k \in {} |-> 0]

\* float("nan"): the one float of which every comparison is false, held in a
\* score field as this code
NaN == -999999999

\* a < b of two floats
Less(a, b) == a # NaN /\ b # NaN /\ a < b

\* int(x) of a non-negative or negative float: truncation toward zero, in units
\* (int(nan) raises ValueError: the callers test for it)
PyInt(f) == IF f >= 0 THEN f \div 1000 ELSE -((-f) \div 1000)

\* float(val) succeeds
CanFloat(val) == val.t \in {"num", "numstr"}

\* a < b raises TypeError unless both are numbers
Comparable(val) == val.t = "num"

(***************************************************************************)
(* normalize_score, src/agent/nodes.py:81                                  *)
(***************************************************************************)
\* the rule the source comment calls OLD: "if f <= 0: return 50.0"
normalize_score_old(val) ==
    IF ~CanFloat(val) THEN U(50)
    ELSE LET f == val.n IN
         IF f # NaN /\ f <= 0 THEN U(50)
         ELSE IF Less(0, f) /\ ~Less(U(1), f) /\ f # NaN THEN f * 100
         ELSE IF Less(U(100), f) THEN U(100)
         ELSE f

normalize_score(val) ==
    IF ~CanFloat(val) THEN U(50)
    ELSE LET f == val.n IN
         IF Less(f, 0) THEN 0
         ELSE IF Less(0, f) /\ ~Less(U(1), f) /\ f # NaN THEN f * 100
         ELSE IF Less(U(100), f) THEN U(100)
         ELSE f

(***************************************************************************)
(* parse_json_safely, src/agent/nodes.py:96                                *)
(* A reply text is described by what the parser looks at: whether it holds *)
(* a "{" and a "}", whether the text between them loads as JSON, and the   *)
(* object it loads to.                                                     *)
(***************************************************************************)
Reply(raw, open, close, loads, obj) ==
    [raw |-> raw, open |-> open, close |-> close, loads |-> loads, obj |-> obj]

\* a reply that is one JSON object
JsonReply(obj) == Reply("<json>", TRUE, TRUE, TRUE, obj)

NoJson == [none |-> TRUE]

parse_json_safely(text) ==
    IF text.open /\ text.close
    THEN IF text.loads THEN text.obj ELSE NoJson
    ELSE NoJson

TruthyAlways(data_json) == TRUE

\* "if data_json:" -- None and the empty dict are both falsy
Truthy(data_json) == data_json # NoJson /\ DOMAIN data_json # {}

(***************************************************************************)
(* Text helpers: the str and re operations the code uses                   *)
(***************************************************************************)
Ch(s, i) == SubSeq(s, i, i)

Uppers == <<"A","B","C","D","E","F","G","H","I","J","K","L","M",
            "N","O","P","Q","R","S","T","U","V","W","X","Y","Z">>
Lowers == <<"a","b","c","d","e","f","g","h","i","j","k","l","m",
            "n","o","p","q","r","s","t","u","v","w","x","y","z">>
Digits == <<"0","1","2","3","4","5","6","7","8","9">>

SeqRange(q) == {q[i] : i \in 1..Len(q)}
UpperSet == SeqRange(Uppers)
LowerSet == SeqRange(Lowers)
DigitSet == SeqRange(Digits)
WordCharSet == UpperSet \cup LowerSet \cup DigitSet \cup {"_"}

LowerMap == [c \in UpperSet |-> Lowers[CHOOSE i \in 1..Len(Uppers) : Uppers[i] = c]]
UpperMap == [c \in LowerSet |-> Uppers[CHOOSE i \in 1..Len(Lowers) : Lowers[i] = c]]

LowerChar(c) == IF c \in UpperSet THEN LowerMap[c] ELSE c
UpperChar(c) == IF c \in LowerSet THEN UpperMap[c] ELSE c

RECURSIVE MapChars(_, _)
\* str.lower() (up = FALSE) and str.upper() (up = TRUE), by halves
MapChars(s, up) ==
    IF Len(s) = 0 THEN ""
    ELSE IF Len(s) = 1 THEN (IF up THEN UpperChar(s) ELSE LowerChar(s))
    ELSE LET h == Len(s) \div 2 IN
         MapChars(SubSeq(s, 1, h), up) \o MapChars(SubSeq(s, h + 1, Len(s)), up)

Lower(s) == MapChars(s, FALSE)
Upper(s) == MapChars(s, TRUE)

IsSpace(c) == c \in {" ", "\n", "\t"}      \* \s
IsPunct(c) == c \in {".", "!", "?"}        \* [.!?]
IsDigit(c) == c \in DigitSet               \* \d
IsWordChar(c) == c \in WordCharSet         \* \w

SetMin(S) == CHOOSE x \in S : \A y \in S : x <= y
SetMax(S) == CHOOSE x \in S : \A y \in S : x >= y

\* str.strip()
Strip(s) ==
    LET keep == {i \in 1..Len(s) : ~IsSpace(Ch(s, i))} IN
    IF keep = {} THEN "" ELSE SubSeq(s, SetMin(keep), SetMax(keep))

\* s[:n]
Prefix(s, n) == IF Len(s) <= n THEN s ELSE SubSeq(s, 1, n)

\* needle in hay
Contains(hay, needle) ==
    \E i \in 0..(Len(hay) - Len(needle)) : SubSeq(hay, i + 1, i + Len(needle)) = needle

\* \b between positions p and p+1 of s
WordAt(s, p) == p >= 1 /\ p <= Len(s) /\ IsWordChar(Ch(s, p))
Boundary(s, p) == WordAt(s, p) # WordAt(s, p + 1)

\* re.search(r'\b' + re.escape(pat) + r'\b', s), with re.IGNORECASE when ci
SearchWord(s, pat, ci) ==
    LET wanted == IF ci THEN Lower(pat) ELSE pat IN
    \E i \in 1..(Len(s) - Len(pat) + 1) :
        /\ Boundary(s, i - 1)
        /\ Boundary(s, i + Len(pat) - 1)
        /\ LET found == SubSeq(s, i, i + Len(pat) - 1) IN
           IF ci THEN Lower(found) = wanted ELSE found = wanted

\* str(y) of a four-digit year
YearStr(y) ==
    Digits[(y \div 1000) + 1] \o Digits[((y \div 100) % 10) + 1]
        \o Digits[((y \div 10) % 10) + 1] \o Digits[(y % 10) + 1]

\* set(re.findall(r'\b(20\d{2})\b', s))
FindYears(s) ==
    {SubSeq(s, i, i + 3) : i \in {j \in 1..(Len(s) - 3) :
        /\ SubSeq(s, j, j + 1) = "20"
        /\ IsDigit(Ch(s, j + 2)) /\ IsDigit(Ch(s, j + 3))
        /\ Boundary(s, j - 1) /\ Boundary(s, j + 3)}}

\* The positions of s that re.split(r'[.!?]+\s+|\n', s) removes: a newline; a
\* run of terminators that whitespace follows; the whitespace after such a run.
SepPositions(s) ==
    LET n == Len(s) IN
    {k \in 1..n :
        LET c == Ch(s, k) IN
        \/ c = "\n"
        \/ /\ IsPunct(c)
           /\ \E j \in (k + 1)..n :
                 IsSpace(Ch(s, j)) /\ \A m \in k..(j - 1) : IsPunct(Ch(s, m))
        \/ /\ IsSpace(c)
           /\ \E j \in 1..(k - 1) :
                 IsPunct(Ch(s, j)) /\ \A m \in (j + 1)..(k - 1) : IsSpace(Ch(s, m))}

RECURSIVE PiecesFrom(_, _, _)
PiecesFrom(s, seps, starts) ==
    IF starts = {} THEN <<>>
    ELSE LET i == SetMin(starts)
             j == SetMin({e \in i..Len(s) : e = Len(s) \/ (e + 1) \in seps})
         IN <<SubSeq(s, i, j)>> \o PiecesFrom(s, seps, starts \ {i})

\* the non-empty pieces of re.split(r'[.!?]+\s+|\n', s), in order
SplitSentences(s) ==
    LET seps == SepPositions(s)
        starts == {i \in 1..Len(s) : i \notin seps /\ (i = 1 \/ (i - 1) \in seps)}
    IN PiecesFrom(s, seps, starts)

(***************************************************************************)
(* extract_ticker_evidence, src/agent/nodes.py:167                         *)
(***************************************************************************)
\* datetime.now().year
CurrentYear == 2026

\* the floor of the stale range, range(2020, current_year - 1)
StaleFloor == 2020

\* a sentence shorter than this is a fragment
MinSentenceLen == 20

\* the four ticker patterns, joined by | and searched with re.IGNORECASE
TickerPatterns(ticker) == {ticker, ticker \o "'s", Upper(ticker), Lower(ticker)}

MentionsTicker(sentence, ticker) ==
    \E pat \in TickerPatterns(ticker) : SearchWord(sentence, pat, TRUE)

\* re.search(stale_regex, sentence)
HasStaleYear(sentence) ==
    \E y \in StaleFloor..(CurrentYear - 2) : SearchWord(sentence, YearStr(y), FALSE)

\* the test without STEP C
RetainedAnyYear(sentence, ticker) ==
    /\ Len(sentence) >= MinSentenceLen
    /\ MentionsTicker(sentence, ticker)
    /\ ~(HasStaleYear(sentence) /\ ~Contains(sentence, YearStr(CurrentYear)))

\* the test a stripped sentence must pass to be appended
Retained(sentence, ticker) ==
    /\ Len(sentence) >= MinSentenceLen
    /\ MentionsTicker(sentence, ticker)
    /\ ~(HasStaleYear(sentence) /\ ~Contains(sentence, YearStr(CurrentYear)))
    /\ LET found_years == FindYears(sentence)
           valid_years == {YearStr(CurrentYear), YearStr(CurrentYear - 1)}
       IN ~(found_years # {} /\ found_years \cap valid_years = {})

RECURSIVE FilterSentences(_, _)
FilterSentences(raw, ticker) ==
    IF raw = <<>> THEN <<>>
    ELSE LET sentence == Strip(Head(raw)) IN
         (IF Retained(sentence, ticker) THEN <<sentence>> ELSE <<>>)
             \o FilterSentences(Tail(raw), ticker)

RECURSIVE JoinSpace(_)
\* ' '.join(q)
JoinSpace(q) ==
    IF q = <<>> THEN ""
    ELSE IF Len(q) = 1 THEN q[1]
    ELSE q[1] \o " " \o JoinSpace(Tail(q))

NoEvidence == [has_ticker |-> FALSE, evidence_sentences |-> <<>>, summary |-> ""]

HasTickerAlways(evidence_sentences) == TRUE

\* 'has_ticker': len(evidence_sentences) > 0
HasTicker(evidence_sentences) == Len(evidence_sentences) > 0

\* news_data is a Python value: [t |-> "str", s |-> text] or anything else
extract_ticker_evidence(news_data, ticker) ==
    IF news_data.t # "str" \/ news_data.s = "" THEN NoEvidence
    ELSE LET evidence_sentences == FilterSentences(SplitSentences(news_data.s), ticker) IN
         [has_ticker |-> HasTicker(evidence_sentences),
          evidence_sentences |-> evidence_sentences,
          summary |-> JoinSpace(SubSeq(evidence_sentences, 1,
                          IF Len(evidence_sentences) < 3 THEN Len(evidence_sentences) ELSE 3))]

(***************************************************************************)
(* What a node hands back to the graph                                     *)
(***************************************************************************)
\* the node raised (llm.invoke failed, or a TypeError) after `calls` llm calls
Raised(calls) == [raised |-> TRUE, update |-> EmptyDict, calls |-> calls]

\* a node that makes every llm call a second time before it returns
ReturnedAfterRetry(update, calls) == [raised |-> FALSE, update |-> update, calls |-> 2 * calls]

\* the node returned the dict `update` after `calls` llm calls
Returned(update, calls) == [raised |-> FALSE, update |-> update, calls |-> calls]

\* the text of a JSON value stored in the Case
AsText(j) ==
    IF j.t = "str" THEN j.s
    ELSE IF j.t = "null" THEN "<None>"
    ELSE "<number>"

\* what llm.invoke did: it raised, or it returned a message with this content
LlmRaised == [called |-> TRUE, raised |-> TRUE,
              content |-> Reply("", FALSE, FALSE, FALSE, EmptyDict)]
LlmSaid(content) == [called |-> TRUE, raised |-> FALSE, content |-> content]

\* the node made no call
NotCalled == [called |-> FALSE, raised |-> FALSE,
              content |-> Reply("", FALSE, FALSE, FALSE, EmptyDict)]

(***************************************************************************)
(* technical_analyst, fundamental_analyst: src/agent/nodes.py:109, 136     *)
(* call_mcp_tool catches every exception and its result only enters the    *)
(* prompt, so it is not part of the state.                                 *)
(***************************************************************************)
AnalystOpinion(llm) ==
    LET data_json == parse_json_safely(llm.content) IN
    IF Truthy(data_json)
    THEN [conf |-> normalize_score(Get(data_json, "confidence", JNum(U(50)))),
          thesis |-> AsText(Get(data_json, "thesis", JStr("Analysis provided.")))]
    ELSE [conf |-> U(50), thesis |-> llm.content.raw]

technical_analyst(st, llm) ==
    IF "ticker" \notin DOMAIN st THEN Raised(0)    \* state["ticker"]: KeyError
    ELSE IF llm.raised THEN Raised(1)
    ELSE LET o == AnalystOpinion(llm) IN
         Returned([tech_thesis_initial |-> o.thesis,
                   tech_confidence_initial |-> o.conf], 1)

\* a fundamental analyst that takes over the confidence the technical analyst wrote
fundamental_analyst_follows(st, llm) ==
    IF "ticker" \notin DOMAIN st THEN Raised(0)
    ELSE IF llm.raised THEN Raised(1)
    ELSE LET o == AnalystOpinion(llm) IN
         Returned([fund_thesis_initial |-> o.thesis,
                   fund_confidence_initial |-> Get(st, "tech_confidence_initial", o.conf)], 1)

\* the fundamental analyst returning under the technical analyst's keys
fundamental_analyst_tech_keys(st, llm) == technical_analyst(st, llm)

fundamental_analyst(st, llm) ==
    IF "ticker" \notin DOMAIN st THEN Raised(0)    \* state["ticker"]: KeyError
    ELSE IF llm.raised THEN Raised(1)
    ELSE LET o == AnalystOpinion(llm) IN
         Returned([fund_thesis_initial |-> o.thesis,
                   fund_confidence_initial |-> o.conf], 1)

(***************************************************************************)
(* risk_manager, src/agent/nodes.py:245                                    *)
(***************************************************************************)
\* a batch shorter than this is dropped
MinBatchLen == 150

\* the search stops once the news is longer than this
NewsEnough == 3000

\* the length of risk_news_summary
SummaryLen == 500

\* how much of a sentence or quote the overlap test looks at
OverlapLen == 100

\* the score the risk stage writes when it has no evidence to go on
BaselineRisk == 25

\* the cap on the risk score when the news mentions H200 and ByteDance
SoftenedRisk == 35

NoEvidenceCritique == "No ticker-specific evidence found."

RECURSIVE FetchNews(_, _, _)
\* the loop over the three queries: batches[i] is what get_market_news gave
FetchNews(batches, i, news_data) ==
    IF i > Len(batches) THEN news_data
    ELSE LET batch == batches[i]
             take == batch # "" /\ Len(batch) > MinBatchLen
         IN IF take
            THEN IF Len(news_data \o batch) > NewsEnough
                 THEN news_data \o batch
                 ELSE FetchNews(batches, i + 1, news_data \o batch)
            ELSE FetchNews(batches, i + 1, news_data)

QuoteOverlapsAlways(llm_evidence, evidence_sentences) == TRUE

\* any(sent[:100] in llm_evidence or llm_evidence[:100] in sent for sent in ...)
QuoteOverlaps(llm_evidence, evidence_sentences) ==
    \E k \in 1..Len(evidence_sentences) :
        \/ Contains(llm_evidence, Prefix(evidence_sentences[k], OverlapLen))
        \/ Contains(evidence_sentences[k], Prefix(llm_evidence, OverlapLen))

\* "not llm_has_ticker and llm_evidence.strip()"
IsHallucination(llm_evidence, evidence_sentences) ==
    ~QuoteOverlaps(llm_evidence, evidence_sentences) /\ Strip(llm_evidence) # ""

\* min(a, b) and max(a, b): the second argument only if it compares beyond the first
PyMin(a, b) == IF Less(b, a) THEN b ELSE a
PyMax(a, b) == IF Less(a, b) THEN b ELSE a

SoftenNever(news_data, risk_score) == risk_score

\* "H200" in str(news_data) and "ByteDance" in str(news_data)
MentionsH200(news_data) == Contains(news_data, "H200") /\ Contains(news_data, "ByteDance")

\* the H200/ByteDance guardrail of the accept path
Soften(news_data, risk_score) ==
    IF MentionsH200(news_data)
    THEN PyMin(risk_score, U(SoftenedRisk))
    ELSE risk_score

RiskReturn(tech, fund, score, news_data, debug_log, calls) ==
    Returned([risk_critique_tech |-> tech,
              risk_critique_fund |-> fund,
              risk_danger_score |-> score,
              risk_news_summary |-> Prefix(news_data, SummaryLen),
              debug_log |-> debug_log], calls)

\* the debug_log entries written up to the evidence pre-check
PreCheckLog(evidence_data) ==
    <<"[PASS 1]", "[PASS 2]", "[PASS 3]", "Evidence Pre-Check", "Sentences with ticker">>
        \o (IF Len(evidence_data.evidence_sentences) > 0 THEN <<"First evidence">> ELSE <<>>)

\* risk_manager from the early exit on, with the conservative baseline written when
\* the reply cannot be parsed
risk_audit_baseline(news_data, evidence_data, llm) ==
    LET log0 == PreCheckLog(evidence_data) IN
    IF ~evidence_data.has_ticker
    THEN RiskReturn(NoEvidenceCritique, NoEvidenceCritique, U(BaselineRisk), news_data,
                    log0 \o <<"NO TICKER EVIDENCE FOUND">>, 0)
    ELSE IF llm.raised THEN Raised(1)
    ELSE LET data_json == parse_json_safely(llm.content) IN
         IF ~Truthy(data_json)
         THEN RiskReturn(NoEvidenceCritique, NoEvidenceCritique, U(BaselineRisk),
                         news_data, log0, 1)
         ELSE LET llm_evidence == Get(data_json, "evidence_found", JStr(""))
                  llm_risk_score == normalize_score(Get(data_json, "risk_score", JNum(0)))
                  log1 == log0 \o <<"LLM Evidence", "LLM Risk Score">>
              IN
              IF llm_evidence.t # "str" THEN Raised(1)
              ELSE IF IsHallucination(llm_evidence.s, evidence_data.evidence_sentences)
              THEN RiskReturn(NoEvidenceCritique, NoEvidenceCritique, U(BaselineRisk),
                              news_data, log1 \o <<"LLM HALLUCINATION">>, 1)
              ELSE RiskReturn(AsText(Get(data_json, "risk_critique_tech", JStr("None"))),
                              AsText(Get(data_json, "risk_critique_fund", JStr("None"))),
                              Soften(news_data, llm_risk_score), news_data,
                              log1 \o <<"Valid LLM assessment">>
                                   \o (IF MentionsH200(news_data)
                                       THEN <<"H200/ByteDance detected">> ELSE <<>>),
                              1)

\* risk_manager from the early exit on (line 287), given its locals news_data and
\* evidence_data; llm is what llm.invoke does if it is called
risk_audit(news_data, evidence_data, llm) ==
    LET log0 == PreCheckLog(evidence_data) IN
    IF ~evidence_data.has_ticker
    THEN RiskReturn(NoEvidenceCritique, NoEvidenceCritique, U(BaselineRisk), news_data,
                    log0 \o <<"NO TICKER EVIDENCE FOUND">>, 0)
    ELSE IF llm.raised THEN Raised(1)
    ELSE LET data_json == parse_json_safely(llm.content) IN
         IF ~Truthy(data_json)
         THEN RiskReturn("None", "None", 0, news_data, log0, 1)
         ELSE LET llm_evidence == Get(data_json, "evidence_found", JStr(""))
                  llm_risk_score == normalize_score(Get(data_json, "risk_score", JNum(0)))
                  log1 == log0 \o <<"LLM Evidence", "LLM Risk Score">>
              IN
              IF llm_evidence.t # "str" THEN Raised(1)    \* llm_evidence[:200]
              ELSE IF IsHallucination(llm_evidence.s, evidence_data.evidence_sentences)
              THEN RiskReturn(NoEvidenceCritique, NoEvidenceCritique, U(BaselineRisk),
                              news_data, log1 \o <<"LLM HALLUCINATION">>, 1)
              ELSE RiskReturn(AsText(Get(data_json, "risk_critique_tech", JStr("None"))),
                              AsText(Get(data_json, "risk_critique_fund", JStr("None"))),
                              Soften(news_data, llm_risk_score), news_data,
                              log1 \o <<"Valid LLM assessment">>
                                   \o (IF MentionsH200(news_data)
                                       THEN <<"H200/ByteDance detected">> ELSE <<>>),
                              1)

\* risk_manager: the news search, the evidence pre-check, then the audit
risk_manager(st, batches, llm) ==
    LET news_data == FetchNews(batches, 1, "")
        evidence_data == extract_ticker_evidence(JStr(news_data), st["ticker"])
    IN risk_audit(news_data, evidence_data, llm)

(***************************************************************************)
(* technical_rebuttal, src/agent/nodes.py:359                              *)
(***************************************************************************)
\* guardrail 1 applies below this risk score
FloorRisk == 35

\* guardrail 2 applies below this risk score ...
CollapseRisk == 30

\* ... and below this confidence
CollapseConf == 70

\* initial_conf * 0.90
MinAllowed(initial_conf) == IF initial_conf = NaN THEN NaN ELSE (initial_conf * 9) \div 10

Stance(conf, signal, thesis) == [conf |-> conf, signal |-> signal, thesis |-> thesis]

\* guardrail 1: the 90% floor
TechGuardrail1(c, risk_score, initial_conf, initial_signal) ==
    IF risk_score < FloorRisk /\ Less(c.conf.n, MinAllowed(initial_conf))
    THEN Stance(JNum(MinAllowed(initial_conf)), initial_signal,
                "Maintained initial trend as risk audit is non-material.")
    ELSE c

\* guardrail 2: the collapse override, on the confidence guardrail 1 left
TechGuardrail2(c, risk_score, initial_conf, initial_signal) ==
    IF risk_score < CollapseRisk /\ Less(c.conf.n, U(CollapseConf))
    THEN Stance(JNum(initial_conf), initial_signal,
                "Risk audit confirms thesis validity. No material threats detected.")
    ELSE c

\* guardrail 3: the critique says that no evidence was found
TechGuardrail3(c, risk_critique, initial_conf, initial_signal) ==
    IF Contains(risk_critique, "No ticker-specific evidence found")
    THEN Stance(JNum(initial_conf), initial_signal,
                "Risk audit validated thesis. No ticker-specific threats identified.")
    ELSE c

technical_rebuttal(st, llm) ==
    LET risk_score == PyInt(Get(st, "risk_danger_score", 0))
        initial_conf == Get(st, "tech_confidence_initial", U(70))
        initial_signal == Get(st, "tech_signal_initial", "BUY")
    IN
    IF "ticker" \notin DOMAIN st THEN Raised(0)    \* state["ticker"]: KeyError
    ELSE IF Get(st, "risk_danger_score", 0) = NaN THEN Raised(0)    \* int(nan)
    ELSE IF llm.raised THEN Raised(1)
    ELSE LET data_json == parse_json_safely(llm.content) IN
         IF ~Truthy(data_json)
         THEN Returned([tech_thesis_final |->
                            Get(st, "tech_thesis_initial", "Initial thesis maintained"),
                        tech_confidence_final |-> initial_conf,
                        tech_signal_final |-> initial_signal], 1)
         ELSE LET c0 == Stance(Get(data_json, "final_confidence", JNum(initial_conf)),
                               AsText(Get(data_json, "final_signal", JStr(initial_signal))),
                               AsText(Get(data_json, "final_thesis", JStr(""))))
                  c1 == TechGuardrail1(c0, risk_score, initial_conf, initial_signal)
                  c2 == TechGuardrail2(c1, risk_score, initial_conf, initial_signal)
                  c3 == TechGuardrail3(c2, Get(st, "risk_critique_tech", ""),
                                       initial_conf, initial_signal)
              IN
              \* "final_conf < ..." raises TypeError on a string or None
              IF risk_score < FloorRisk /\ ~Comparable(c0.conf) THEN Raised(1)
              ELSE IF risk_score < CollapseRisk /\ ~Comparable(c1.conf) THEN Raised(1)
              ELSE Returned([tech_thesis_final |-> c3.thesis,
                             tech_confidence_final |-> normalize_score(c3.conf),
                             tech_signal_final |-> c3.signal], 1)

(***************************************************************************)
(* fundamental_rebuttal, src/agent/nodes.py:427                            *)
(***************************************************************************)
bullish_catalysts == <<"lilly", "bionemo", "57 billion", "65 billion", "blackwell ramp">>

\* the short-circuit applies below this risk score
GrowthRisk == 20

\* the confidence floor of the short-circuit
GrowthFloor == 85

RECURSIVE JoinComma(_)
\* ', '.join(q)
JoinComma(q) ==
    IF q = <<>> THEN ""
    ELSE IF Len(q) = 1 THEN q[1]
    ELSE q[1] \o ", " \o JoinComma(Tail(q))

RECURSIVE FoundCatalysts(_, _)
\* [c for c in bullish_catalysts[i:] if c in news_summary]
FoundCatalysts(news_summary, i) ==
    IF i > Len(bullish_catalysts) THEN <<>>
    ELSE (IF Contains(news_summary, bullish_catalysts[i])
          THEN <<bullish_catalysts[i]>> ELSE <<>>)
             \o FoundCatalysts(news_summary, i + 1)

\* the only guardrail of the fundamental rebuttal
FundGuardrail(final_conf, risk_score, initial_conf) ==
    IF risk_score < CollapseRisk /\ Less(final_conf, U(CollapseConf))
    THEN initial_conf
    ELSE final_conf

\* fundamental_rebuttal from line 442 on, given its local found_catalysts
fund_rebuttal_decide(st, found_catalysts, llm) ==
    LET risk_score == PyInt(Get(st, "risk_danger_score", 0))
        initial_conf == Get(st, "fund_confidence_initial", U(60))
        initial_thesis == Get(st, "fund_thesis_initial", "")
        is_growth_confirmed == Len(found_catalysts) > 0 /\ risk_score < GrowthRisk
    IN
    IF "ticker" \notin DOMAIN st THEN Raised(0)    \* state["ticker"]: KeyError
    ELSE IF Get(st, "risk_danger_score", 0) = NaN THEN Raised(0)    \* int(nan)
    ELSE IF is_growth_confirmed
    THEN Returned([fund_thesis_final |->
                       "Thesis anchored by confirmed catalysts: "
                           \o JoinComma(found_catalysts)
                           \o ". Risk audit (" \o ToString(risk_score)
                           \o ") confirms no impairment.",
                   fund_confidence_final |-> PyMax(initial_conf, U(GrowthFloor))], 0)
    ELSE IF llm.raised THEN Raised(1)
    ELSE LET data_json == parse_json_safely(llm.content) IN
         IF ~Truthy(data_json)
         THEN Returned([fund_thesis_final |-> initial_thesis,
                        fund_confidence_final |-> initial_conf], 1)
         ELSE LET final_conf ==
                      normalize_score(Get(data_json, "final_confidence", JNum(U(50))))
              IN Returned([fund_thesis_final |->
                               AsText(Get(data_json, "final_thesis", JNull)),
                           fund_confidence_final |->
                               FundGuardrail(final_conf, risk_score, initial_conf)], 1)

\* the scan without .lower()
ScanCatalystsCased(risk_news_summary) == FoundCatalysts(risk_news_summary, 1)

\* the catalysts fundamental_rebuttal finds in the lower-cased news summary
ScanCatalysts(risk_news_summary) == FoundCatalysts(Lower(risk_news_summary), 1)

\* fundamental_rebuttal: the catalyst scan, then the decision
fundamental_rebuttal(st, llm) ==
    fund_rebuttal_decide(st, ScanCatalysts(Get(st, "risk_news_summary", "")), llm)

(***************************************************************************)
(* get_weights and calculate_verdict, src/agent/final_verdict.py           *)
(* Weights are in hundredths, so a weighted score counts 1/100000.         *)
(***************************************************************************)
Weights(tech, fund, risk) == [tech |-> tech, fund |-> fund, risk |-> risk]

get_weights_no_strip(style, risk) ==
    IF style = "trader"
    THEN IF risk = "aggressive" THEN Weights(60, 10, 30)
         ELSE IF risk = "conservative" THEN Weights(40, 20, 40)
         ELSE Weights(50, 20, 30)
    ELSE IF style = "investor"
    THEN IF risk = "aggressive" THEN Weights(10, 60, 30)
         ELSE IF risk = "conservative" THEN Weights(10, 40, 50)
         ELSE Weights(20, 50, 30)
    ELSE Weights(33, 33, 34)

get_weights_investor_default(style, risk) ==
    LET style_ == Strip(Lower(style))
        risk_ == Strip(Lower(risk))
    IN
    IF style_ = "trader"
    THEN IF risk_ = "aggressive" THEN Weights(60, 10, 30)
         ELSE IF risk_ = "conservative" THEN Weights(40, 20, 40)
         ELSE Weights(50, 20, 30)
    ELSE IF risk_ = "aggressive" THEN Weights(10, 60, 30)
         ELSE IF risk_ = "conservative" THEN Weights(10, 40, 50)
         ELSE Weights(20, 50, 30)

get_weights(style, risk) ==
    LET style_ == Strip(Lower(style))
        risk_ == Strip(Lower(risk))
    IN
    IF style_ = "trader"
    THEN IF risk_ = "aggressive" THEN Weights(60, 10, 30)
         ELSE IF risk_ = "conservative" THEN Weights(40, 20, 40)
         ELSE Weights(50, 20, 30)
    ELSE IF style_ = "investor"
    THEN IF risk_ = "aggressive" THEN Weights(10, 60, 30)
         ELSE IF risk_ = "conservative" THEN Weights(10, 40, 50)
         ELSE Weights(20, 50, 30)
    ELSE Weights(33, 33, 34)

\* n units as a weighted score
SU(n) == n * 100000

\* the score at or above which the verdict is BUY
BuyScore == 25

\* the score at or below which the verdict is SELL
SellScore == 10

clean_score_zero(val) == IF CanFloat(val) THEN val.n ELSE 0

\* clean_score: float(val), 50.0 on ValueError or TypeError
clean_score(val) == IF CanFloat(val) THEN val.n ELSE U(50)

\* a score field of a state dict handed to calculate_verdict may also hold None
\* or a text float() cannot read; in a score field they are held as these codes
NoneValue == -999999998
TextValue == -999999997

\* state.get(key) as a Python value: None when the key is absent
StateValue(st, key) ==
    IF key \notin DOMAIN st THEN JNull
    ELSE IF st[key] = NoneValue THEN JNull
    ELSE IF st[key] = TextValue THEN JStr("n/a")
    ELSE JNum(st[key])

\* round(x, 1) of a weighted score, in thousandths; an exact tie goes to the even digit
Round1(x) ==
    LET q == x \div 10000
        r == x % 10000
    IN IF x = NaN THEN NaN
       ELSE IF r > 5000 \/ (r = 5000 /\ q % 2 = 1) THEN (q + 1) * 100 ELSE q * 100

SignalStrict(weighted_score) ==
    IF weighted_score > SU(BuyScore) THEN "BUY"
    ELSE IF weighted_score < SU(SellScore) THEN "SELL"
    ELSE "HOLD"

\* the thresholds with BUY and SELL exchanged
SignalSwapped(weighted_score) ==
    IF weighted_score = NaN THEN "HOLD"
    ELSE IF weighted_score >= SU(BuyScore) THEN "SELL"
    ELSE IF weighted_score <= SU(SellScore) THEN "BUY"
    ELSE "HOLD"

\* step 4 of calculate_verdict
Signal(weighted_score) ==
    IF weighted_score = NaN THEN "HOLD"    \* neither comparison is true of nan
    ELSE IF weighted_score >= SU(BuyScore) THEN "BUY"
    ELSE IF weighted_score <= SU(SellScore) THEN "SELL"
    ELSE "HOLD"

calculate_verdict(st) ==
    LET user_style == Get(st, "user_style", "investor")
        risk_profile == Get(st, "risk_profile", "moderate")
        weights == get_weights(user_style, risk_profile)
        tech_score == clean_score(StateValue(st, "tech_confidence_final"))
        fund_score == clean_score(StateValue(st, "fund_confidence_final"))
        risk_score == clean_score(StateValue(st, "risk_danger_score"))
        weighted_score ==
            IF NaN \in {tech_score, fund_score, risk_score} THEN NaN
            ELSE (tech_score * weights.tech) + (fund_score * weights.fund)
                     - (risk_score * weights.risk)
    IN [final_signal |-> Signal(weighted_score),
        final_confidence |-> Round1(weighted_score),
        final_explanation |-> [score |-> Round1(weighted_score), tech |-> tech_score,
                               fund |-> fund_score, risk |-> risk_score,
                               style |-> user_style]]

final_node_signal_first(st) ==
    Returned([final_signal |-> calculate_verdict(st).final_signal], 0)

\* final_node, src/agent/nodes.py:482
final_node(st) == Returned(calculate_verdict(st), 0)

(***************************************************************************)
(* The environment: what the collaborators may answer                      *)
(***************************************************************************)
Nodes == <<"technical_analyst", "fundamental_analyst", "risk_manager",
           "technical_rebuttal", "fundamental_rebuttal", "final_node">>

\* how many of the batches of BatchPool the news search may return
NumBatchKinds == 4

BatchPool ==
    <<"",
      "AAPL is under investigation by regulators in 2026.",
      "AAPL shares rallied after the company raised its 2026 guidance on strong services demand. Analysts say AAPL remains well positioned for the coming quarters. Supply chain checks were stable this week.",
      "Chip makers gained as H200 export licences were approved for several buyers this month. ByteDance was reported to be among the largest customers for the accelerators, with Lilly close behind.",
      "AAPL's 2022 earnings beat expectations on record hardware sales in the holiday quarter. AAPL rallied through 2023 as buybacks continued at a steady pace for holders. Old transcripts were archived.",
      "AAPL and Lilly announced a research partnership in 2026 that analysts called material for both. The Blackwell ramp continued at suppliers, with orders said to approach 57 billion dollars.">>

Batches == {BatchPool[i] : i \in 1..PyMin(NumBatchKinds, Len(BatchPool))}

\* generate_dynamic_queries returns three queries, so there are three passes
NumQueries == 3

BatchChoices == [1..NumQueries -> Batches]

Tickers == {"AAPL"}

Profiles == {[style |-> " Trader", risk |-> "aggressive"]}

FreeText == Reply("The trend looks strong.", FALSE, FALSE, FALSE, EmptyDict)
BrokenJson == Reply("{confidence: high", TRUE, FALSE, FALSE, EmptyDict)

AnalystReplies ==
    {LlmRaised,
     LlmSaid(FreeText),
     LlmSaid(JsonReply([confidence |-> JNum(U(80)), thesis |-> JStr("Momentum is positive.")])),
     LlmSaid(JsonReply([confidence |-> JNum(5), thesis |-> JStr("Momentum is positive.")])),
     LlmSaid(JsonReply([confidence |-> JNum(NaN), thesis |-> JStr("Momentum is positive.")])),
     LlmSaid(JsonReply([thesis |-> JStr("Momentum is positive.")]))}

QuoteTrue == "AAPL shares rallied after the company raised its 2026 guidance on strong services demand."
QuoteInvented == "AAPL faces a class action over battery failures."

RiskJson(quote, score, tech, fund) ==
    LlmSaid(JsonReply([evidence_found |-> quote, risk_score |-> score,
                       risk_critique_tech |-> JStr(tech), risk_critique_fund |-> JStr(fund)]))

RiskReplies ==
    {LlmRaised,
     LlmSaid(BrokenJson),
     RiskJson(JStr(QuoteTrue), JNum(0), "Momentum may fade.", "Margins are thin."),
     RiskJson(JStr(QuoteTrue), JNum(U(20)), "Momentum may fade.", "Margins are thin."),
     RiskJson(JStr(QuoteTrue), JNum(U(32)), "Momentum may fade.", "Margins are thin."),
     RiskJson(JStr(QuoteTrue), JNum(U(80)), "Momentum may fade.", "Margins are thin."),
     RiskJson(JStr(QuoteTrue), JNum(U(80)), NoEvidenceCritique, NoEvidenceCritique),
     RiskJson(JStr(QuoteInvented), JNum(U(80)), "Momentum may fade.", "Margins are thin."),
     RiskJson(JStr("   "), JNum(U(50)), "Momentum may fade.", "Margins are thin."),
     RiskJson(JNull, JNum(U(80)), "Momentum may fade.", "Margins are thin."),
     RiskJson(JStr(QuoteTrue), JNum(NaN), "Momentum may fade.", "Margins are thin.")}

RebuttalJson(conf) ==
    LlmSaid(JsonReply([final_confidence |-> conf, final_signal |-> JStr("SELL"),
                       final_thesis |-> JStr("Revised after the audit.")]))

RebuttalReplies ==
    {LlmRaised,
     LlmSaid(FreeText),
     LlmSaid(JsonReply(EmptyDict)),
     RebuttalJson(JNum(U(50))),
     RebuttalJson(JNum(U(75))),
     RebuttalJson(JStr("low")),
     RebuttalJson(JNum(NaN))}

(***************************************************************************)
(* The graph, src/agent/graph.py: one action per node                      *)
(***************************************************************************)
EdgeRiskLast(node) ==
    CASE node = "technical_analyst" -> "fundamental_analyst"
      [] node = "fundamental_analyst" -> "technical_rebuttal"
      [] node = "technical_rebuttal" -> "fundamental_rebuttal"
      [] node = "fundamental_rebuttal" -> "risk_manager"
      [] node = "risk_manager" -> "final_node"
      [] node = "final_node" -> "END"

\* workflow.add_edge(node, Edge(node)), src/agent/graph.py:34
Edge(node) ==
    CASE node = "technical_analyst" -> "fundamental_analyst"
      [] node = "fundamental_analyst" -> "risk_manager"
      [] node = "risk_manager" -> "technical_rebuttal"
      [] node = "technical_rebuttal" -> "fundamental_rebuttal"
      [] node = "fundamental_rebuttal" -> "final_node"
      [] node = "final_node" -> "END"

\* workflow.set_entry_point, src/agent/graph.py:31
EntryPoint == "technical_analyst"

\* the node's dict is merged into the Case
Merge(st, update) == update @@ st

NoNews == [run |-> FALSE, news_data |-> "", evidence_data |-> NoEvidence]

Init ==
    /\ pc = EntryPoint
    /\ \E ticker \in Tickers, p \in Profiles :
          state = [ticker |-> ticker, messages |-> <<>>,
                   user_style |-> p.style, risk_profile |-> p.risk]
    /\ trace = <<>>
    /\ llm_calls = [n \in {Nodes[i] : i \in 1..Len(Nodes)} |-> 0]
    /\ heard = NotCalled
    /\ news_seen = NoNews

\* node `node` ran with `result`, having been offered `llm`; `next` follows it
Step(node, next, result, llm) ==
    /\ pc = node
    /\ llm_calls' = [llm_calls EXCEPT ![node] = @ + result.calls]
    /\ heard' = IF result.calls > 0 THEN llm ELSE NotCalled
    /\ IF result.raised
       THEN pc' = "error" /\ UNCHANGED <<state, trace>>
       ELSE /\ pc' = next
            /\ state' = Merge(state, result.update)
            /\ trace' = Append(trace, node)

TechnicalAnalyst ==
    \E llm \in AnalystReplies :
        /\ Step("technical_analyst", Edge("technical_analyst"),
                technical_analyst(state, llm), llm)
        /\ UNCHANGED news_seen

FundamentalAnalyst ==
    \E llm \in AnalystReplies :
        /\ Step("fundamental_analyst", Edge("fundamental_analyst"),
                fundamental_analyst(state, llm), llm)
        /\ UNCHANGED news_seen

\* risk_manager's locals after the news search and the evidence pre-check, for
\* every ticker and every answer of the search (a set, so it is computed once)
NewsCases ==
    {[ticker |-> ticker,
      news_data |-> FetchNews(batches, 1, ""),
      evidence_data |-> extract_ticker_evidence(JStr(FetchNews(batches, 1, "")), ticker)] :
        ticker \in Tickers, batches \in BatchChoices}

RiskManager ==
    /\ pc = "risk_manager"
    /\ \E nc \in NewsCases, llm \in RiskReplies :
          /\ nc.ticker = state["ticker"]
          /\ Step("risk_manager", Edge("risk_manager"),
                  risk_audit(nc.news_data, nc.evidence_data, llm), llm)
          /\ news_seen' = [run |-> TRUE, news_data |-> nc.news_data,
                           evidence_data |-> nc.evidence_data]

TechnicalRebuttal ==
    \E llm \in RebuttalReplies :
        /\ Step("technical_rebuttal", Edge("technical_rebuttal"),
                technical_rebuttal(state, llm), llm)
        /\ UNCHANGED news_seen

\* fundamental_rebuttal's local found_catalysts for every news summary the risk
\* stage can have written (a set, so it is computed once)
SummaryCases ==
    {[risk_news_summary |-> Prefix(nc.news_data, SummaryLen),
      found_catalysts |-> ScanCatalysts(Prefix(nc.news_data, SummaryLen))] :
        nc \in NewsCases}

FundamentalRebuttal ==
    /\ pc = "fundamental_rebuttal"
    /\ \E sc \in SummaryCases, llm \in RebuttalReplies :
          /\ sc.risk_news_summary = Get(state, "risk_news_summary", "")
          /\ Step("fundamental_rebuttal", Edge("fundamental_rebuttal"),
                  fund_rebuttal_decide(state, sc.found_catalysts, llm), llm)
          /\ UNCHANGED news_seen

FinalNode ==
    /\ Step("final_node", Edge("final_node"), final_node(state), NotCalled)
    /\ UNCHANGED news_seen

Next ==
    \/ TechnicalAnalyst
    \/ FundamentalAnalyst
    \/ RiskManager
    \/ TechnicalRebuttal
    \/ FundamentalRebuttal
    \/ FinalNode

Spec == Init /\ [][Next]_vars

(***************************************************************************)
(* calculate_verdict on its own: every profile spelling and every triple   *)
(* of scores of a grid, handed to final_node                               *)
(***************************************************************************)
\* the scores are the multiples of 100/GridSteps between 0 and 100
GridSteps == 10

ScoreGrid == {(U(100) * k) \div GridSteps : k \in 0..GridSteps}

Styles == {"trader", " Trader ", "investor", "INVESTOR", "hodler"}
RiskProfiles == {"aggressive", "conservative", "Conservative ", "moderate", "yolo"}

InitVerdict ==
    /\ pc = "final_node"
    /\ \E ticker \in Tickers, style \in Styles, risk \in RiskProfiles,
          tech \in ScoreGrid, fund \in ScoreGrid, danger \in ScoreGrid :
          state = [ticker |-> ticker, messages |-> <<>>,
                   user_style |-> style, risk_profile |-> risk,
                   tech_confidence_final |-> tech,
                   fund_confidence_final |-> fund,
                   risk_danger_score |-> danger]
    /\ trace = SubSeq(Nodes, 1, 5)
    /\ llm_calls = [n \in {Nodes[i] : i \in 1..Len(Nodes)} |-> 0]
    /\ heard = NotCalled
    /\ news_seen = NoNews

SpecVerdict == InitVerdict /\ [][FinalNode]_vars

(***************************************************************************)
(* The graph with the two analyst nodes in either order: the entry point   *)
(* is either of them, the other follows, then risk_manager as in graph.py  *)
(***************************************************************************)
Analysts == {"technical_analyst", "fundamental_analyst"}

\* the node after an analyst: the other analyst if it has not run, else the node
\* that follows both in graph.py
AfterAnalyst(node) ==
    LET other == CHOOSE n \in Analysts : n # node IN
    IF other \in SeqRange(trace) THEN Edge("fundamental_analyst") ELSE other

InitAnyOrder ==
    /\ pc \in Analysts
    /\ \E ticker \in Tickers, p \in Profiles :
          state = [ticker |-> ticker, messages |-> <<>>,
                   user_style |-> p.style, risk_profile |-> p.risk]
    /\ trace = <<>>
    /\ llm_calls = [n \in {Nodes[i] : i \in 1..Len(Nodes)} |-> 0]
    /\ heard = NotCalled
    /\ news_seen = NoNews

TechnicalAnalystAnyOrder ==
    \E llm \in AnalystReplies :
        /\ Step("technical_analyst", AfterAnalyst("technical_analyst"),
                technical_analyst(state, llm), llm)
        /\ UNCHANGED news_seen

FundamentalAnalystAnyOrder ==
    \E llm \in AnalystReplies :
        /\ Step("fundamental_analyst", AfterAnalyst("fundamental_analyst"),
                fundamental_analyst(state, llm), llm)
        /\ UNCHANGED news_seen

NextAnyOrder ==
    \/ TechnicalAnalystAnyOrder
    \/ FundamentalAnalystAnyOrder
    \/ RiskManager
    \/ TechnicalRebuttal
    \/ FundamentalRebuttal
    \/ FinalNode

SpecAnyOrder == InitAnyOrder /\ [][NextAnyOrder]_vars

(***************************************************************************)
(* The graph started on a state dict that may lack the ticker or the       *)
(* profile                                                                 *)
(***************************************************************************)
InputKeys == {"ticker", "user_style", "risk_profile"}

InitInputs ==
    /\ pc = EntryPoint
    /\ \E ticker \in Tickers, p \in Profiles, present \in SUBSET InputKeys :
          LET full == [ticker |-> ticker, user_style |-> p.style, risk_profile |-> p.risk]
          IN state = [key \in present |-> full[key]] @@ [messages |-> <<>>]
    /\ trace = <<>>
    /\ llm_calls = [n \in {Nodes[i] : i \in 1..Len(Nodes)} |-> 0]
    /\ heard = NotCalled
    /\ news_seen = NoNews

SpecInputs == InitInputs /\ [][Next]_vars

(***************************************************************************)
(* calculate_verdict on a state dict whose scores may be missing           *)
(***************************************************************************)
ScoreKeys == {"tech_confidence_final", "fund_confidence_final", "risk_danger_score"}

\* what a score field that is present may hold: a number, None, or a text float()
\* cannot read
HeldScores == {0, U(25), U(50), U(80), U(100), NoneValue, TextValue}

InitMissing ==
    /\ pc = "final_node"
    /\ \E ticker \in Tickers, style \in Styles, risk \in RiskProfiles,
          present \in SUBSET ScoreKeys, held \in [ScoreKeys -> HeldScores] :
          state = [key \in present |-> held[key]]
                      @@ [ticker |-> ticker, messages |-> <<>>,
                          user_style |-> style, risk_profile |-> risk]
    /\ trace = SubSeq(Nodes, 1, 5)
    /\ llm_calls = [n \in {Nodes[i] : i \in 1..Len(Nodes)} |-> 0]
    /\ heard = NotCalled
    /\ news_seen = NoNews

SpecMissing == InitMissing /\ [][FinalNode]_vars

(***************************************************************************)
(* normalize_score on its own: one value in, one value out                 *)
(***************************************************************************)
\* float("inf") compares above every number; -Infinity is float("-inf")
Infinity == 2000000000

\* the finite samples are the multiples of 2.5 from -10 up to 2.5 x NormalizeSpan - 10 ...
NormalizeSpan == 48

\* ... and the values next to the thresholds of normalize_score
Floats ==
    {(k - 4) * 2500 : k \in 0..NormalizeSpan}
        \cup {-1, 1, 500, 999, 1000, 1001, 99999, 100000, 100001, 150000}
        \cup {NaN, Infinity, -Infinity}

\* what may be handed to normalize_score: floats, strings float() can read, other
\* strings, None
NormalizeInputs ==
    {JNum(f) : f \in Floats} \cup {JNumStr(f) : f \in Floats}
        \cup {JStr("not a number"), JStr(""), JNull}

InitNormalize ==
    /\ pc = "normalize_score"
    /\ \E val \in NormalizeInputs : state = [val |-> val]
    /\ trace = <<>>
    /\ llm_calls = [n \in {Nodes[i] : i \in 1..Len(Nodes)} |-> 0]
    /\ heard = NotCalled
    /\ news_seen = NoNews

\* normalize_score(val) returned
Normalize ==
    /\ pc = "normalize_score"
    /\ pc' = "returned"
    /\ state' = [val |-> state["val"], result |-> normalize_score(state["val"])]
    /\ UNCHANGED <<trace, llm_calls, heard, news_seen>>

SpecNormalize == InitNormalize /\ [][Normalize]_vars

(***************************************************************************)
(* extract_ticker_evidence on its own: a news text made of known sentences *)
(***************************************************************************)
\* the sentences a news text is composed of (none holds a terminator or a newline,
\* none starts or ends with whitespace)
SentencePool ==
    <<"AAPL rallied in 2023 after a strong 2026 guidance update",
      "AAPL's 2022 earnings beat expectations",
      "AAPL beat estimates",
      "AAPL beats estimates",
      "AAPLY shares rose sharply in 2026",
      "Shares of aapl were flat in 2025",
      "AAPL guidance for 2027 was withheld",
      "AAPL fell in 2023 but recovered during 2025",
      "Chip makers gained broadly in 2026",
      "AAPL order 20261 cites 2023 and 2025 results",
      "AAPL since 2019 has doubled its payout">>

\* a news text holds at most this many sentences
MaxSentences == 4

\* what stands between two sentences of a text, by position
Terminators == <<". ", "!  ", "?\n", "\n">>

RECURSIVE Ascending(_)
\* the members of a set of numbers, smallest first
Ascending(S) ==
    IF S = {} THEN <<>>
    ELSE LET x == SetMin(S) IN <<x>> \o Ascending(S \ {x})

Reversed(q) == [i \in 1..Len(q) |-> q[Len(q) + 1 - i]]

RECURSIVE Compose(_, _)
\* the news text of the sentences q, the i-th terminator after the i-th sentence
Compose(q, i) ==
    IF i > Len(q) THEN ""
    ELSE IF i = Len(q) THEN q[i]
    ELSE q[i] \o Terminators[((i - 1) % Len(Terminators)) + 1] \o Compose(q, i + 1)

\* the sentence lists of the texts: up to MaxSentences sentences of the pool, in
\* the order of the pool or against it
SentenceLists ==
    LET picks == {S \in SUBSET (1..Len(SentencePool)) : Cardinality(S) <= MaxSentences}
        lists == {Ascending(S) : S \in picks}
    IN {[i \in 1..Len(q) |-> SentencePool[q[i]]] : q \in lists \cup {Reversed(l) : l \in lists}}

InitEvidence ==
    /\ pc = "extract_ticker_evidence"
    /\ \E ticker \in Tickers :
          \/ \E q \in SentenceLists :
                state = [ticker |-> ticker, sentences |-> q, news_data |-> JStr(Compose(q, 1))]
          \/ state = [ticker |-> ticker, sentences |-> <<>>, news_data |-> JNull]
    /\ trace = <<>>
    /\ llm_calls = [n \in {Nodes[i] : i \in 1..Len(Nodes)} |-> 0]
    /\ heard = NotCalled
    /\ news_seen = NoNews

\* extract_ticker_evidence(news_data, ticker) returned
ExtractEvidence ==
    /\ pc = "extract_ticker_evidence"
    /\ pc' = "returned"
    /\ state' = [evidence_data |->
                     extract_ticker_evidence(state["news_data"], state["ticker"])] @@ state
    /\ UNCHANGED <<trace, llm_calls, heard, news_seen>>

SpecEvidence == InitEvidence /\ [][ExtractEvidence]_vars

(***************************************************************************)
(* Properties                                                              *)
(***************************************************************************)
\* node `node` is the one that ran last, and it completed
JustRan(node) == pc # "error" /\ Len(trace) > 0 /\ trace[Len(trace)] = node

\* the node that ran last got a reply it could parse into a non-empty object
HeardJson == heard.called /\ ~heard.raised /\ Truthy(parse_json_safely(heard.content))

\* a key of that object
Said(key, default) == Get(parse_json_safely(heard.content), key, default)

\* the rebuttal reply holds a numeric candidate confidence below 70
CandidateBelowCollapse ==
    /\ HeardJson
    /\ "final_confidence" \in DOMAIN parse_json_safely(heard.content)
    /\ Said("final_confidence", JNull).t = "num"
    /\ Said("final_confidence", JNull).n < U(70)

\* the critique aimed at an analyst says that no evidence was found
SaysNoEvidence(critique_key) ==
    critique_key \in DOMAIN state
        /\ Contains(state[critique_key], "No ticker-specific evidence found")

\* C1 (as stated): after a rebuttal whose reply was parsable with a candidate
\* confidence below 70, under a danger score below 30, the final confidence equals
\* the analyst's initial confidence -- for the technical and the fundamental variant.
C1_CollapseRestoresInitial ==
    /\ (JustRan("technical_rebuttal") /\ CandidateBelowCollapse
            /\ state["risk_danger_score"] < U(30))
          => state["tech_confidence_final"] = state["tech_confidence_initial"]
    /\ (JustRan("fundamental_rebuttal") /\ CandidateBelowCollapse
            /\ state["risk_danger_score"] < U(30))
          => state["fund_confidence_final"] = state["fund_confidence_initial"]

\* final >= 0.90 x initial, as floats: false when either is nan
FloorHolds(final, initial) == final # NaN /\ initial # NaN /\ 10 * final >= 9 * initial

\* C2 (as stated): whenever the danger score is below 35, the final confidence a
\* rebuttal stage wrote is at least 0.90 x the analyst's initial confidence.
C2_PersistenceFloor ==
    /\ ("tech_confidence_final" \in DOMAIN state /\ state["risk_danger_score"] < U(35))
          => FloorHolds(state["tech_confidence_final"], state["tech_confidence_initial"])
    /\ ("fund_confidence_final" \in DOMAIN state /\ state["risk_danger_score"] < U(35))
          => FloorHolds(state["fund_confidence_final"], state["fund_confidence_initial"])

\* C3 (as stated): when the critique aimed at an analyst says that no
\* ticker-specific evidence was found, the rebuttal's final confidence equals the
\* initial confidence (and the technical final signal the initial signal), whatever
\* the danger score and the candidate.
C3_NoEvidenceRestoresInitial ==
    /\ ("tech_confidence_final" \in DOMAIN state /\ SaysNoEvidence("risk_critique_tech"))
          => /\ state["tech_confidence_final"] = state["tech_confidence_initial"]
             /\ state["tech_signal_final"] = Get(state, "tech_signal_initial", "BUY")
    /\ ("fund_confidence_final" \in DOMAIN state /\ SaysNoEvidence("risk_critique_fund"))
          => state["fund_confidence_final"] = state["fund_confidence_initial"]

(***************************************************************************)
(* The order of the stages and the verdict                                 *)
(***************************************************************************)
\* the fields of the Case a node writes when it completes
WrittenBy(node) ==
    CASE node = "technical_analyst" -> {"tech_thesis_initial", "tech_confidence_initial"}
      [] node = "fundamental_analyst" -> {"fund_thesis_initial", "fund_confidence_initial"}
      [] node = "risk_manager" -> {"risk_critique_tech", "risk_critique_fund",
                                   "risk_danger_score", "risk_news_summary", "debug_log"}
      [] node = "technical_rebuttal" -> {"tech_thesis_final", "tech_confidence_final",
                                         "tech_signal_final"}
      [] node = "fundamental_rebuttal" -> {"fund_thesis_final", "fund_confidence_final"}
      [] node = "final_node" -> {"final_signal", "final_confidence", "final_explanation"}

\* C4: the nodes that completed are always the first nodes of the fixed order, each
\* once; the node about to run is the next of that order; every completed node has
\* written its fields and no node that has not completed has written any; a run
\* that reached END completed all six in that order.
C4_StagesInOrder ==
    /\ Len(trace) <= Len(Nodes)
    /\ \A i \in 1..Len(trace) : trace[i] = Nodes[i]
    /\ pc \in {"END", "error"} \/ (Len(trace) < Len(Nodes) /\ pc = Nodes[Len(trace) + 1])
    /\ pc = "END" => trace = Nodes
    /\ \A i \in 1..Len(Nodes) :
          IF i <= Len(trace)
          THEN WrittenBy(Nodes[i]) \subseteq DOMAIN state
          ELSE WrittenBy(Nodes[i]) \cap DOMAIN state = {}

\* C4 happens: a run reached END after all six stages
C4_RunCompleted == pc = "END" /\ trace = Nodes /\ "final_signal" \in DOMAIN state

VerdictKeys == {"final_signal", "final_confidence", "final_explanation"}

VerdictPresent == VerdictKeys \subseteq DOMAIN state

\* C5: in every state the three verdict fields are all absent or all present; they
\* are present only after both rebuttals completed and exactly when final_node
\* completed, which it does at most once; and once present they never change.
C5_VerdictWrittenOnce ==
    /\ [](/\ VerdictKeys \cap DOMAIN state \in {{}, VerdictKeys}
          /\ VerdictPresent =>
                \E i, j \in 1..Len(trace) :
                    trace[i] = "technical_rebuttal" /\ trace[j] = "fundamental_rebuttal"
          /\ VerdictPresent <=> (\E i \in 1..Len(trace) : trace[i] = "final_node")
          /\ Cardinality({i \in 1..Len(trace) : trace[i] = "final_node"}) <= 1)
    /\ [][VerdictPresent =>
            /\ VerdictPresent'
            /\ \A k \in VerdictKeys : state'[k] = state[k]]_vars

\* C5 happens: the verdict was written by a run that went through both rebuttals
C5_VerdictWritten ==
    /\ VerdictPresent
    /\ JustRan("final_node")
    /\ state["final_signal"] \in {"BUY", "SELL", "HOLD"}

(***************************************************************************)
(* The risk stage                                                          *)
(***************************************************************************)
\* the risk stage's fields are the baseline: 25.0 and the no-evidence critiques
BaselineWritten ==
    /\ "risk_manager" \in {trace[i] : i \in 1..Len(trace)}
    /\ state["risk_danger_score"] = U(25)
    /\ state["risk_critique_tech"] = "No ticker-specific evidence found."
    /\ state["risk_critique_fund"] = "No ticker-specific evidence found."

\* C6: once risk_manager has run on news from which the evidence validator retained
\* no sentence, the danger score is 25.0, both critiques are the no-evidence
\* critique, and the risk stage has called the collaborator zero times.
C6_NoEvidenceShortCircuit ==
    (news_seen.run /\ Len(news_seen.evidence_data.evidence_sentences) = 0)
        => BaselineWritten /\ llm_calls["risk_manager"] = 0

\* C6 happens: the search returned news, none of it about the ticker, and the
\* stage completed
C6_NewsWithoutEvidence ==
    /\ JustRan("risk_manager")
    /\ news_seen.news_data # ""
    /\ Len(news_seen.evidence_data.evidence_sentences) = 0
    /\ state["risk_danger_score"] = U(25)

\* the two texts share their opening: one holds the first 100 characters of the other
SharesOpening(a, b) == Contains(a, Prefix(b, 100)) \/ Contains(b, Prefix(a, 100))

\* the quote overlaps with none of the pre-extracted evidence sentences
OverlapsNone(quote) ==
    \A k \in 1..Len(news_seen.evidence_data.evidence_sentences) :
        ~SharesOpening(quote, news_seen.evidence_data.evidence_sentences[k])

\* risk_manager has just completed with evidence and a parsed response whose
\* evidence quote is the text of Said("evidence_found")
RiskHeardQuote ==
    /\ JustRan("risk_manager")
    /\ Len(news_seen.evidence_data.evidence_sentences) > 0
    /\ HeardJson
    /\ Said("evidence_found", JStr("")).t = "str"

\* C7 (as stated): with evidence and a parsed response whose evidence quote is
\* non-empty and overlaps with none of the pre-extracted sentences, risk_manager
\* writes danger score 25.0 and the no-evidence critiques.
C7_NonEmptyQuoteOverridden ==
    (/\ RiskHeardQuote
     /\ Said("evidence_found", JStr("")).s # ""
     /\ OverlapsNone(Said("evidence_found", JStr("")).s))
        => BaselineWritten

\* C7 (amended): the same for a quote that is non-empty after leading and trailing
\* whitespace is stripped.
C7_NonBlankQuoteOverridden ==
    (/\ RiskHeardQuote
     /\ Strip(Said("evidence_found", JStr("")).s) # ""
     /\ OverlapsNone(Said("evidence_found", JStr("")).s))
        => BaselineWritten

\* C7 happens: the collaborator claimed risk 80 on an invented quote and the Case
\* holds the baseline
C7_InventedQuoteRejected ==
    /\ RiskHeardQuote
    /\ Said("evidence_found", JStr("")).s = QuoteInvented
    /\ Said("risk_score", JNull) = JNum(U(80))
    /\ state["risk_danger_score"] = U(25)
    /\ llm_calls["risk_manager"] = 1

\* the accept path: evidence, a parsed response, and a quote that is blank or
\* overlaps a pre-extracted sentence
RiskAccepted ==
    /\ RiskHeardQuote
    /\ \/ Strip(Said("evidence_found", JStr("")).s) = ""
       \/ ~OverlapsNone(Said("evidence_found", JStr("")).s)

\* the critiques in the Case are the collaborator's
CritiquesAreSaid ==
    /\ state["risk_critique_tech"] = AsText(Said("risk_critique_tech", JStr("None")))
    /\ state["risk_critique_fund"] = AsText(Said("risk_critique_fund", JStr("None")))

\* C8 (as stated): on the accept path the danger score is normalize(claimed risk
\* score) and the critiques are the collaborator's, whatever the news text.
C8_AcceptedScoreIsNormalized ==
    RiskAccepted =>
        /\ state["risk_danger_score"] = normalize_score(Said("risk_score", JNum(0)))
        /\ CritiquesAreSaid

\* C8 (amended): on the accept path the critiques are the collaborator's and the
\* danger score is normalize(claimed risk score), except that news text holding
\* both "H200" and "ByteDance" caps it at 35.
C8_AcceptedScoreCappedOnH200 ==
    RiskAccepted =>
        /\ state["risk_danger_score"] =
              IF Contains(news_seen.news_data, "H200")
                    /\ Contains(news_seen.news_data, "ByteDance")
                    /\ normalize_score(Said("risk_score", JNum(0))) > U(35)
              THEN U(35)
              ELSE normalize_score(Said("risk_score", JNum(0)))
        /\ CritiquesAreSaid

\* C8 happens: a claimed score of 80 was accepted on news that holds both words,
\* and the Case holds 35
C8_SoftenedTo35 ==
    /\ RiskAccepted
    /\ Said("risk_score", JNull) = JNum(U(80))
    /\ Contains(news_seen.news_data, "H200")
    /\ Contains(news_seen.news_data, "ByteDance")
    /\ state["risk_danger_score"] = U(35)

(***************************************************************************)
(* The verdict                                                             *)
(***************************************************************************)
\* tech x W.tech + fund x W.fund - danger x W.risk over the scores in the Case
ScoreOf(w) ==
    state["tech_confidence_final"] * w.tech + state["fund_confidence_final"] * w.fund
        - state["risk_danger_score"] * w.risk

\* C9: after final_node, with score the weighted sum of the three scores in the
\* Case under the profile's weights, the signal is BUY iff score >= 25, SELL iff
\* score <= 10, HOLD iff 10 < score < 25, and it is one of the three.
C9_SignalThresholds ==
    JustRan("final_node") =>
        LET score == ScoreOf(get_weights(state["user_style"], state["risk_profile"])) IN
        /\ state["final_signal"] \in {"BUY", "SELL", "HOLD"}
        /\ state["final_signal"] = "BUY" <=> score >= 25 * 100000
        /\ state["final_signal"] = "SELL" <=> score <= 10 * 100000
        /\ state["final_signal"] = "HOLD" <=> (10 * 100000 < score /\ score < 25 * 100000)

\* C9 happens: a score of exactly 25 was decided, and it is a BUY
C9_ExactlyTwentyFive ==
    /\ JustRan("final_node")
    /\ ScoreOf(get_weights(state["user_style"], state["risk_profile"])) = 25 * 100000
    /\ state["final_signal"] = "BUY"

TraderSpellings == {"trader", " Trader", " Trader "}
InvestorSpellings == {"investor", "INVESTOR"}
AggressiveSpellings == {"aggressive"}
ConservativeSpellings == {"conservative", "Conservative "}

\* the row of the weight table for a style and a risk tolerance, in hundredths
TableRow(style, risk) ==
    IF style \in TraderSpellings
    THEN IF risk \in AggressiveSpellings THEN [tech |-> 60, fund |-> 10, risk |-> 30]
         ELSE IF risk \in ConservativeSpellings THEN [tech |-> 40, fund |-> 20, risk |-> 40]
         ELSE [tech |-> 50, fund |-> 20, risk |-> 30]
    ELSE IF risk \in AggressiveSpellings THEN [tech |-> 10, fund |-> 60, risk |-> 30]
         ELSE IF risk \in ConservativeSpellings THEN [tech |-> 10, fund |-> 40, risk |-> 50]
         ELSE [tech |-> 20, fund |-> 50, risk |-> 30]

\* the Case holds the scores tech, fund and danger
ScoresAre(tech, fund, danger) ==
    /\ state["tech_confidence_final"] = U(tech)
    /\ state["fund_confidence_final"] = U(fund)
    /\ state["risk_danger_score"] = U(danger)

\* C10: for every spelling of trader or investor and every risk tolerance,
\* get_weights returns the row of the table, and the verdict final_node writes is
\* the table's score for the Case: trader/aggressive with 80, 80, 50 gives 41 and
\* BUY, investor/conservative with 50, 50, 80 gives -15 and SELL.
C10_WeightTable ==
    LET style == state["user_style"]
        risk == state["risk_profile"]
    IN
    style \in TraderSpellings \cup InvestorSpellings =>
        /\ get_weights(style, risk) = TableRow(style, risk)
        /\ JustRan("final_node") =>
              /\ state["final_confidence"] = Round1(ScoreOf(TableRow(style, risk)))
              /\ (/\ style \in TraderSpellings /\ risk \in AggressiveSpellings
                  /\ ScoresAre(80, 80, 50))
                    => state["final_confidence"] = U(41) /\ state["final_signal"] = "BUY"
              /\ (/\ style \in InvestorSpellings /\ risk \in ConservativeSpellings
                  /\ ScoresAre(50, 50, 80))
                    => state["final_confidence"] = 0 - U(15) /\ state["final_signal"] = "SELL"

\* C10 happens: the profile " Trader "/aggressive with 80, 80, 50 got 41 and BUY
C10_TraderAggressiveExample ==
    /\ JustRan("final_node")
    /\ state["user_style"] = " Trader "
    /\ state["risk_profile"] = "aggressive"
    /\ ScoresAre(80, 80, 50)
    /\ state["final_confidence"] = U(41)
    /\ state["final_signal"] = "BUY"

(***************************************************************************)
(* Unknown profiles                                                        *)
(***************************************************************************)
ModerateSpellings == {"moderate"}

KnownStyle(style) == style \in TraderSpellings \cup InvestorSpellings

KnownRisk(risk) == risk \in AggressiveSpellings \cup ModerateSpellings \cup ConservativeSpellings

EqualWeights == [tech |-> 33, fund |-> 33, risk |-> 34]

\* C11 (as stated): whenever the style or the risk string of the profile is not a
\* recognized value, get_weights returns the equal-weight table.
C11_UnknownProfileGetsEqualWeights ==
    (~KnownStyle(state["user_style"]) \/ ~KnownRisk(state["risk_profile"]))
        => get_weights(state["user_style"], state["risk_profile"]) = EqualWeights

\* C11 (amended): an unrecognized style gets the equal-weight table whatever the
\* risk string, and the verdict is computed with it; an unrecognized risk string
\* under a recognized style gets that style's moderate row.
C11_UnknownStyleGetsEqualWeights ==
    LET style == state["user_style"]
        risk == state["risk_profile"]
    IN
    /\ ~KnownStyle(style) =>
          /\ get_weights(style, risk) = EqualWeights
          /\ JustRan("final_node") =>
                state["final_confidence"] = Round1(ScoreOf(EqualWeights))
    /\ (KnownStyle(style) /\ ~KnownRisk(risk)) =>
          get_weights(style, risk) = get_weights(style, "moderate")

\* C11 happens: the profile hodler/yolo with 80, 80, 50 was decided with the equal
\* weights: 26.4 + 26.4 - 17 = 35.8
C11_HodlerDecided ==
    /\ JustRan("final_node")
    /\ state["user_style"] = "hodler"
    /\ state["risk_profile"] = "yolo"
    /\ ScoresAre(80, 80, 50)
    /\ state["final_confidence"] = 35800
    /\ state["final_signal"] = "BUY"

(***************************************************************************)
(* Normalization and ranges                                                *)
(***************************************************************************)
\* x is a float of [0, 100]
InRange(x) == x # NaN /\ 0 <= x /\ x <= 100000

\* C12 (as stated): normalize_score returns 50.0 for a value float() cannot read,
\* 0.0 for a value below 0, value x 100 for 0 < value <= 1, 100.0 for a value above
\* 100 and the value itself otherwise; and its result lies in [0, 100] for every
\* input.
C12_NormalizeInRange ==
    pc = "returned" =>
        LET val == state["val"]
            f == val.n
            result == state["result"]
        IN
        /\ val.t \notin {"num", "numstr"} => result = 50000
        /\ val.t \in {"num", "numstr"} =>
              /\ (f # NaN /\ f < 0) => result = 0
              /\ (f # NaN /\ 0 < f /\ f <= 1000) => result = f * 100
              /\ (f # NaN /\ f > 100000) => result = 100000
              /\ ~(f # NaN /\ (f < 0 \/ (0 < f /\ f <= 1000) \/ f > 100000)) => result = f
        /\ InRange(result)

\* the scores one stage writes and a later stage reads
ScoreFields ==
    {"tech_confidence_initial", "fund_confidence_initial", "risk_danger_score",
     "tech_confidence_final", "fund_confidence_final"}

\* C13 (as stated): in every reachable state, each of tech_confidence_initial,
\* fund_confidence_initial, risk_danger_score, tech_confidence_final and
\* fund_confidence_final that has been written lies in [0, 100], whatever the
\* collaborator replied.
C13_WrittenScoresInRange ==
    \A key \in ScoreFields : key \in DOMAIN state => InRange(state[key])

\* C14 (as stated): for every profile and every technical confidence, fundamental
\* confidence and danger score in [0, 100], the verdict's final_confidence lies in
\* [0, 100].
C14_FinalConfidenceInRange ==
    (/\ pc = "END"
     /\ InRange(state["tech_confidence_final"])
     /\ InRange(state["fund_confidence_final"])
     /\ InRange(state["risk_danger_score"]))
        => InRange(state["final_confidence"])

(***************************************************************************)
(* A danger score of zero                                                  *)
(***************************************************************************)
\* the Case holds a danger score of exactly 0
DangerIsZero == "risk_danger_score" \in DOMAIN state /\ state["risk_danger_score"] = 0

\* the rebuttal reply holds a candidate confidence that is a number
CandidateIsNumber ==
    /\ HeardJson
    /\ "final_confidence" \in DOMAIN parse_json_safely(heard.content)
    /\ Said("final_confidence", JNull).t = "num"
    /\ Said("final_confidence", JNull).n # NaN

\* C15: a risk score of 0 that risk_manager accepts is stored as 0; no later stage
\* changes it; and the later stages compute with 0: under danger 0 technical_rebuttal
\* holds a numeric candidate to the 0.90 floor (35 > 0), fundamental_rebuttal restores
\* the initial confidence over a candidate below 70 (30 > 0), and final_node reports
\* risk 0 and subtracts nothing from the weighted sum.
C15_ZeroDangerPreserved ==
    /\ [](RiskAccepted /\ Said("risk_score", JNull) = JNum(0) => DangerIsZero)
    /\ [][(DangerIsZero /\ "risk_manager" \in {trace[i] : i \in 1..Len(trace)})
              => state'["risk_danger_score"] = 0]_vars
    /\ []((JustRan("technical_rebuttal") /\ DangerIsZero /\ CandidateIsNumber
              /\ state["tech_confidence_initial"] # NaN)
            => FloorHolds(state["tech_confidence_final"], state["tech_confidence_initial"]))
    /\ []((JustRan("fundamental_rebuttal") /\ DangerIsZero /\ CandidateIsNumber
              /\ CandidateBelowCollapse)
            => state["fund_confidence_final"] = state["fund_confidence_initial"])
    /\ []((JustRan("final_node") /\ DangerIsZero
              /\ state["tech_confidence_final"] # NaN /\ state["fund_confidence_final"] # NaN)
            => LET w == get_weights(state["user_style"], state["risk_profile"]) IN
               /\ state["final_explanation"].risk = 0
               /\ state["final_confidence"] =
                     Round1(state["tech_confidence_final"] * w.tech
                                + state["fund_confidence_final"] * w.fund))

\* C15 happens: the run is over, the Case holds the collaborator's critique and
\* still its danger score 0, the technical rebuttal was held to the floor (initial
\* 80, candidate 50, final 72) and the verdict was computed with risk 0
C15_ZeroDangerDecided ==
    /\ pc = "END"
    /\ DangerIsZero
    /\ state["risk_critique_tech"] = "Momentum may fade."
    /\ state["tech_confidence_initial"] = U(80)
    /\ state["tech_confidence_final"] = U(72)
    /\ state["final_explanation"].risk = 0

(***************************************************************************)
(* Missing verdict inputs                                                  *)
(***************************************************************************)
\* the score field is absent, None, or a text that is not a number
IsMissing(key) == key \notin DOMAIN state \/ state[key] \in {NoneValue, TextValue}

\* the number the verdict is to compute with: 50.0 for a missing field
Effective(key) == IF IsMissing(key) THEN U(50) ELSE state[key]

\* C16: calculate_verdict always completes, and it computes with 50.0 in place of
\* each of tech_confidence_final, fund_confidence_final and risk_danger_score that is
\* absent, None or not a number -- the explanation reports 50.0 for it and the
\* final confidence is the rounded weighted sum taken with 50.0.
C16_MissingInputsAreNeutral ==
    /\ pc # "error"
    /\ JustRan("final_node") =>
          LET w == get_weights(state["user_style"], state["risk_profile"])
              score == Effective("tech_confidence_final") * w.tech
                           + Effective("fund_confidence_final") * w.fund
                           - Effective("risk_danger_score") * w.risk
          IN
          /\ VerdictPresent
          /\ state["final_explanation"].tech = Effective("tech_confidence_final")
          /\ state["final_explanation"].fund = Effective("fund_confidence_final")
          /\ state["final_explanation"].risk = Effective("risk_danger_score")
          /\ state["final_confidence"] = Round1(score)
          /\ state["final_signal"] = Signal(score)

\* C16 happens: a trader/aggressive verdict was produced from a state dict with no
\* technical confidence, fundamental confidence None and a danger score that is
\* text: 50 x 0.60 + 50 x 0.10 - 50 x 0.30 = 20.0, HOLD
C16_AllThreeMissing ==
    /\ pc = "END"
    /\ "tech_confidence_final" \notin DOMAIN state
    /\ "fund_confidence_final" \in DOMAIN state /\ state["fund_confidence_final"] = NoneValue
    /\ "risk_danger_score" \in DOMAIN state /\ state["risk_danger_score"] = TextValue
    /\ state["user_style"] = "trader" /\ state["risk_profile"] = "aggressive"
    /\ state["final_confidence"] = U(20)
    /\ state["final_signal"] = "HOLD"

(***************************************************************************)
(* Fallbacks and failures of the collaborator                              *)
(***************************************************************************)
\* the node that ran last got a reply in which no JSON object could be read
HeardUnparsable ==
    heard.called /\ ~heard.raised /\ parse_json_safely(heard.content) = NoJson

\* the initial signal of an analyst as a later stage reads it (technical_rebuttal:
\* state.get("tech_signal_initial", "BUY"))
InitialSignal(prefix) == Get(state, prefix \o "_signal_initial", "BUY")

\* what an analyst is to have written after a reply
AnalystFellBack(prefix) ==
    /\ HeardUnparsable =>
          /\ state[prefix \o "_confidence_initial"] = U(50)
          /\ state[prefix \o "_thesis_initial"] = heard.content.raw
          /\ InitialSignal(prefix) = "HOLD"
    /\ (HeardJson /\ "confidence" \notin DOMAIN parse_json_safely(heard.content))
          => state[prefix \o "_confidence_initial"] = U(50)

\* C17 (as stated): after an analyst whose reply could not be parsed, the Case holds
\* confidence 50.0, signal HOLD and the raw reply as thesis; after a parsable reply
\* without a confidence it holds confidence 50.
C17_AnalystFallback ==
    /\ JustRan("technical_analyst") => AnalystFellBack("tech")
    /\ JustRan("fundamental_analyst") => AnalystFellBack("fund")

\* C18 (as stated): no stage raises -- whether the collaborator call fails or its
\* reply has the wrong shape, the stage completes with its fallback, so no run is
\* ever aborted by an exception.
C18_NoStageRaises == pc # "error"

\* C19: after a rebuttal whose reply could not be parsed, technical_rebuttal has
\* written final thesis, confidence and signal equal to the initial thesis, the
\* initial confidence and the initial signal as it reads it, and fundamental_rebuttal
\* final thesis and confidence equal to the initial ones -- under every danger score
\* and critique, so no guardrail has altered them.
C19_RebuttalFallback ==
    /\ (JustRan("technical_rebuttal") /\ HeardUnparsable) =>
          /\ state["tech_thesis_final"] = state["tech_thesis_initial"]
          /\ state["tech_confidence_final"] = state["tech_confidence_initial"]
          /\ state["tech_signal_final"] = InitialSignal("tech")
    /\ (JustRan("fundamental_rebuttal") /\ HeardUnparsable) =>
          /\ state["fund_thesis_final"] = state["fund_thesis_initial"]
          /\ state["fund_confidence_final"] = state["fund_confidence_initial"]

\* C19 happens: under danger 20, where the guardrails of a parsed reply apply,
\* fundamental_rebuttal got free text and kept thesis and confidence 80
C19_FundamentalFellBack ==
    /\ JustRan("fundamental_rebuttal")
    /\ HeardUnparsable
    /\ state["risk_danger_score"] = U(20)
    /\ state["fund_confidence_initial"] = U(80)
    /\ state["fund_confidence_final"] = U(80)
    /\ state["fund_thesis_final"] = "Momentum is positive."

(***************************************************************************)
(* The catalyst short-circuit of the fundamental rebuttal                  *)
(***************************************************************************)
\* a catalyst phrase occurs in the text, in whatever case
HasCatalyst(text) ==
    \E i \in 1..Len(bullish_catalysts) : Contains(Lower(text), bullish_catalysts[i])

\* the news texts of the search that hold a catalyst phrase anywhere ...
NewsWithCatalyst == {nc.news_data : nc \in {n \in NewsCases : HasCatalyst(n.news_data)}}

\* ... and those that hold one within their first 500 characters
NewsWithEarlyCatalyst ==
    {nc.news_data : nc \in {n \in NewsCases : HasCatalyst(Prefix(n.news_data, SummaryLen))}}

\* max(initial_conf, 85.0) as Python computes it: nan stays nan
AnchoredFloor(initial_conf) ==
    IF initial_conf = NaN THEN NaN
    ELSE IF initial_conf > U(85) THEN initial_conf ELSE U(85)

\* after fundamental_rebuttal: the short-circuit was taken exactly on the news texts
\* of catalyst_news under a danger score below 20, and the collaborator was invoked
\* otherwise
ShortCircuitOn(catalyst_news) ==
    JustRan("fundamental_rebuttal") =>
        IF news_seen.news_data \in catalyst_news /\ state["risk_danger_score"] < U(20)
        THEN /\ state["fund_confidence_final"] = AnchoredFloor(state["fund_confidence_initial"])
             /\ llm_calls["fundamental_rebuttal"] = 0
        ELSE llm_calls["fundamental_rebuttal"] = 1

HasSubject == "ticker" \in DOMAIN state

HasProfile == {"user_style", "risk_profile"} \subseteq DOMAIN state

\* C21 (as stated): a run started without the ticker, or without user_style or
\* risk_profile, never completes and never holds a verdict; a run started with all
\* of them never fails.
C21_RequiredInputs ==
    /\ (~HasSubject \/ ~HasProfile) => (pc # "END" /\ ~VerdictPresent)
    /\ (HasSubject /\ HasProfile) => pc # "error"

(***************************************************************************)
(* The evidence retention rule                                             *)
(***************************************************************************)
\* the words of a text: its maximal runs of letters, digits and underscores
Words(text) ==
    LET n == Len(text)
        in_word(i) == i >= 1 /\ i <= n /\ SubSeq(text, i, i) \in WordCharSet
        first == {i \in 1..n : in_word(i) /\ ~in_word(i - 1)}
        last(i) == CHOOSE j \in i..n : ~in_word(j + 1) /\ \A k \in i..j : in_word(k)
    IN {SubSeq(text, i, last(i)) : i \in first}

\* the year tokens of a text: its words of the form 20dd
YearTokens(text) ==
    {w \in Words(text) :
        /\ Len(w) = 4
        /\ SubSeq(w, 1, 2) = "20"
        /\ SubSeq(w, 3, 3) \in DigitSet /\ SubSeq(w, 4, 4) \in DigitSet}

\* with Y = 2026: the stale years 2020..Y-2 and the valid years Y, Y-1
StaleYears == {"2020", "2021", "2022", "2023", "2024"}
ValidYears == {"2026", "2025"}

\* the retention rule, on the words of the sentence
RuleKeeps(sentence, ticker) ==
    /\ Len(sentence) >= 20
    /\ \E w \in Words(sentence) : Lower(w) = Lower(ticker)
    /\ YearTokens(sentence) \cap StaleYears # {} => Contains(sentence, "2026")
    /\ YearTokens(sentence) # {} => YearTokens(sentence) \cap ValidYears # {}

\* the sentences of the pool the rule keeps for AAPL
KeptSentences ==
    {SentencePool[i] : i \in {j \in 1..Len(SentencePool) : RuleKeeps(SentencePool[j], "AAPL")}}

IsKept(sentence) == sentence \in KeptSentences

\* the first three of a list, joined by single spaces
FirstThreeJoined(q) ==
    IF Len(q) = 0 THEN ""
    ELSE IF Len(q) = 1 THEN q[1]
    ELSE IF Len(q) = 2 THEN q[1] \o " " \o q[2]
    ELSE q[1] \o " " \o q[2] \o " " \o q[3]

\* C22: extract_ticker_evidence retains a candidate sentence iff it has at least 20
\* characters, holds the ticker as a whole word in any case, holds no stale year
\* token (2020..Y-2) unless it holds the digits of Y, and holds no year token at all
\* or one of Y, Y-1; the retained sentences keep the order of the text, has_ticker
\* says whether there is one, and summary is the first three joined by spaces.  With
\* Y = 2026 the sentence on the 2023 rally and the 2026 guidance is kept and the
\* one on the 2022 earnings is not.
C22_RetentionRule ==
    /\ IsKept("AAPL rallied in 2023 after a strong 2026 guidance update")
    /\ ~IsKept("AAPL's 2022 earnings beat expectations")
    /\ pc = "returned" =>
          LET evidence_data == state["evidence_data"]
              kept == SelectSeq(state["sentences"], IsKept)
          IN
          /\ evidence_data.evidence_sentences = kept
          /\ evidence_data.has_ticker = (Len(kept) > 0)
          /\ evidence_data.summary = FirstThreeJoined(kept)

\* C22 happens: of four sentences the one on the 2022 earnings was dropped and the
\* other three were retained in their order
C22_ThreeOfFourRetained ==
    /\ pc = "returned"
    /\ state["sentences"] = <<SentencePool[1], SentencePool[2], SentencePool[4], SentencePool[6]>>
    /\ state["evidence_data"].has_ticker
    /\ state["evidence_data"].evidence_sentences =
          <<SentencePool[1], SentencePool[4], SentencePool[6]>>

(***************************************************************************)
(* Frame: what a stage may change                                          *)
(***************************************************************************)
\* the keys on which two state dicts differ
Changed(st, st2) ==
    {key \in DOMAIN st \cup DOMAIN st2 :
        key \notin DOMAIN st \/ key \notin DOMAIN st2 \/ st[key] # st2[key]}

\* C23: the write sets of the six stages are pairwise disjoint and hold neither the
\* ticker nor the profile; and a step of a stage adds or changes only keys of that
\* stage's write set and removes none -- so the ticker, the profile and every field
\* an earlier stage wrote stay as they were.
C23_StagesWriteOnlyTheirFields ==
    /\ [](/\ \A i, j \in 1..Len(Nodes) :
                i # j => WrittenBy(Nodes[i]) \cap WrittenBy(Nodes[j]) = {}
          /\ \A i \in 1..Len(Nodes) :
                WrittenBy(Nodes[i]) \cap {"ticker", "user_style", "risk_profile"} = {})
    /\ [][/\ DOMAIN state \subseteq DOMAIN state'
          /\ Changed(state, state') \subseteq WrittenBy(pc)]_vars

\* C23 happens: at the end of a run every stage's fields are there, the ticker and
\* the profile are those of the start, and the initial confidence 80 stands next to
\* the final 72 that the technical rebuttal wrote
C23_AllFieldsSideBySide ==
    /\ pc = "END"
    /\ \A i \in 1..Len(Nodes) : WrittenBy(Nodes[i]) \subseteq DOMAIN state
    /\ state["ticker"] = "AAPL"
    /\ state["user_style"] = " Trader" /\ state["risk_profile"] = "aggressive"
    /\ state["tech_confidence_initial"] = U(80)
    /\ state["tech_confidence_final"] = U(72)

(***************************************************************************)
(* Independence of the two analysts                                        *)
(***************************************************************************)
\* the Cases a run starts from
InitialCases ==
    {[ticker |-> ticker, messages |-> <<>>, user_style |-> p.style, risk_profile |-> p.risk] :
        ticker \in Tickers, p \in Profiles}

\* the replies after which an analyst completes
AnalystAnswers == {llm \in AnalystReplies : ~llm.raised}

\* the Cases before the risk stage when the analysts run in the order of graph.py
CasesInGraphOrder ==
    {LET after_tech == Merge(st, technical_analyst(st, a).update)
     IN Merge(after_tech, fundamental_analyst(after_tech, b).update) :
        st \in InitialCases, a \in AnalystAnswers, b \in AnalystAnswers}

\* the Cases when both analysts run on the Case of the start and both dicts are
\* merged afterwards
CasesSideBySide ==
    {Merge(Merge(st, technical_analyst(st, a).update), fundamental_analyst(st, b).update) :
        st \in InitialCases, a \in AnalystAnswers, b \in AnalystAnswers}

\* what an analyst writes for the reply it heard, whatever the Case held
WroteOwnOpinion(prefix) ==
    /\ state[prefix \o "_confidence_initial"] =
          (IF HeardJson THEN normalize_score(Said("confidence", JNum(U(50)))) ELSE U(50))
    /\ state[prefix \o "_thesis_initial"] =
          (IF HeardJson THEN AsText(Said("thesis", JStr("Analysis provided.")))
           ELSE heard.content.raw)

\* C24: with the two analysts run in either order, each writes what its own reply
\* says whether or not the other has run; the Case that reaches the risk stage is
\* one the order of graph.py produces, as is the Case of two analysts run side by
\* side; and the verdict at the end is the one calculate_verdict gives for the Case,
\* so the order of the analysts cannot show in it.
C24_AnalystsCommute ==
    /\ CasesSideBySide = CasesInGraphOrder
    /\ JustRan("technical_analyst") => WroteOwnOpinion("tech")
    /\ JustRan("fundamental_analyst") => WroteOwnOpinion("fund")
    /\ pc = "risk_manager" => state \in CasesInGraphOrder
    /\ pc = "END" =>
          [key \in VerdictKeys |-> state[key]]
              = calculate_verdict([key \in DOMAIN state \ VerdictKeys |-> state[key]])

\* C24 happens: the fundamental analyst ran first and said 80, the technical
\* analyst ran second and got free text, and the Case before the risk stage is one
\* of the graph's order
C24_FundamentalRanFirst ==
    /\ pc = "risk_manager"
    /\ trace = <<"fundamental_analyst", "technical_analyst">>
    /\ state["fund_confidence_initial"] = U(80)
    /\ state["tech_confidence_initial"] = U(50)
    /\ state["tech_thesis_initial"] = "The trend looks strong."
    /\ state \in CasesInGraphOrder

(***************************************************************************)
(* No retry                                                                *)
(***************************************************************************)
\* the collaborator invocations of the run so far
TotalCalls ==
    llm_calls["technical_analyst"] + llm_calls["fundamental_analyst"]
        + llm_calls["risk_manager"] + llm_calls["technical_rebuttal"]
        + llm_calls["fundamental_rebuttal"] + llm_calls["final_node"]

\* C25: in a run every stage has invoked the collaborator at most once, final_node
\* never, risk_manager not when no sentence was retained, fundamental_rebuttal not
\* when it anchored on a catalyst, so at most five times in all; an unparsable reply
\* is followed by the next stage, and nothing follows a call that raised -- no stage
\* invokes the collaborator a second time.
C25_NoRetry ==
    /\ [](/\ \A i \in 1..Len(Nodes) : llm_calls[Nodes[i]] \in {0, 1}
          /\ llm_calls["final_node"] = 0
          /\ TotalCalls <= 5
          /\ (JustRan("risk_manager") /\ Len(news_seen.evidence_data.evidence_sentences) = 0)
                => llm_calls["risk_manager"] = 0
          /\ (JustRan("fundamental_rebuttal") /\ news_seen.news_data \in NewsWithEarlyCatalyst
                  /\ state["risk_danger_score"] < U(20))
                => llm_calls["fundamental_rebuttal"] = 0
          /\ \A i \in 1..Len(Nodes) :
                (JustRan(Nodes[i]) /\ HeardUnparsable)
                    => (llm_calls[Nodes[i]] = 1 /\ pc = Edge(Nodes[i])))
    /\ [][/\ pc # "error"
          /\ \A i \in 1..Len(Nodes) :
                llm_calls'[Nodes[i]] =
                    llm_calls[Nodes[i]] + (IF pc = Nodes[i] /\ heard'.called THEN 1 ELSE 0)]_vars

\* C25 happens: a run ended in which each of the five stages that talk to the
\* collaborator did so once
C25_FiveCalls ==
    /\ pc = "END"
    /\ TotalCalls = 5
    /\ \A i \in 1..5 : llm_calls[Nodes[i]] = 1

(***************************************************************************)
(* The signal the technical rebuttal restores                              *)
(***************************************************************************)
\* technical_rebuttal fell back (no parsable reply) or guardrail 1 held a numeric
\* candidate to the floor: in both cases it writes "the initial signal"
TechSignalRestored ==
    /\ JustRan("technical_rebuttal")
    /\ \/ ~HeardJson
       \/ /\ CandidateIsNumber
          /\ state["risk_danger_score"] < U(35)
          /\ state["tech_confidence_initial"] # NaN
          /\ 10 * Said("final_confidence", JNull).n < 9 * state["tech_confidence_initial"]

\* C26 (as stated): whenever technical_rebuttal restores or falls back to the
\* initial signal, the Case holds the signal the technical analyst produced in round
\* 1 and tech_signal_final equals it.
C26_RestoredSignalIsAnalysts ==
    TechSignalRestored =>
        /\ "tech_signal_initial" \in DOMAIN state
        /\ state["tech_signal_final"] = state["tech_signal_initial"]

(***************************************************************************)
(* A run without evidence, end to end                                      *)
(***************************************************************************)
\* the news search ran and no sentence was retained for the ticker
NothingRetained ==
    news_seen.run /\ Len(news_seen.evidence_data.evidence_sentences) = 0

\* C27 (as stated): when no sentence was retained, the run ends with both final
\* confidences equal to the initial ones, and with the verdict computed from the two
\* initial confidences and danger 25, whatever the rebuttal replies were.
C27_NoEvidenceRunKeepsInitial ==
    (pc = "END" /\ NothingRetained) =>
        /\ state["tech_confidence_final"] = state["tech_confidence_initial"]
        /\ state["fund_confidence_final"] = state["fund_confidence_initial"]
        /\ LET w == get_weights(state["user_style"], state["risk_profile"])
               tech == state["tech_confidence_initial"]
               fund == state["fund_confidence_initial"]
           IN (tech # NaN /\ fund # NaN)
                => state["final_confidence"]
                       = Round1(tech * w.tech + fund * w.fund - U(25) * w.risk)

(***************************************************************************)
(* normalize_score applied twice                                           *)
(***************************************************************************)
\* C28 (as stated): for every numeric value, normalizing the result of
\* normalize_score again leaves it unchanged.
C28_NormalizeIdempotent ==
    (pc = "returned" /\ state["val"].t \in {"num", "numstr"})
        => normalize_score(JNum(state["result"])) = state["result"]

(***************************************************************************)
(* Monotonicity of the verdict                                             *)
(***************************************************************************)
\* SELL below HOLD below BUY
Rank(signal) == CASE signal = "SELL" -> 0 [] signal = "HOLD" -> 1 [] signal = "BUY" -> 2

\* one step of the score grid
GridStep == U(100) \div GridSteps

\* the score can be raised by one step within [0, 100]
CanRaise(key) == state[key] + GridStep <= U(100)

\* the signal calculate_verdict gives when that score is one step higher and all
\* else is as in the Case
SignalWithRaised(key) ==
    calculate_verdict([state EXCEPT ![key] = @ + GridStep]).final_signal

\* C29: for every profile and scores in [0, 100], against the verdict final_node
\* wrote, a higher danger score never gives a signal nearer to BUY, and a higher
\* technical or fundamental confidence never gives one nearer to SELL (step by
\* step along the grid, hence for any increase).
C29_VerdictMonotone ==
    JustRan("final_node") =>
        /\ CanRaise("risk_danger_score")
              => Rank(SignalWithRaised("risk_danger_score")) <= Rank(state["final_signal"])
        /\ CanRaise("tech_confidence_final")
              => Rank(SignalWithRaised("tech_confidence_final")) >= Rank(state["final_signal"])
        /\ CanRaise("fund_confidence_final")
              => Rank(SignalWithRaised("fund_confidence_final")) >= Rank(state["final_signal"])

\* C29 happens: a verdict BUY that one more step of danger turns into HOLD, and
\* that one more step of technical confidence leaves BUY
C29_DangerTurnsBuyToHold ==
    /\ JustRan("final_node")
    /\ state["final_signal"] = "BUY"
    /\ CanRaise("risk_danger_score") /\ SignalWithRaised("risk_danger_score") = "HOLD"
    /\ CanRaise("tech_confidence_final") /\ SignalWithRaised("tech_confidence_final") = "BUY"

(***************************************************************************)
(* The risk stage when its reply cannot be parsed                          *)
(***************************************************************************)

\* risk_manager found evidence sentences for the ticker
EvidenceFound == news_seen.run /\ Len(news_seen.evidence_data.evidence_sentences) > 0

\* the reply risk_manager just got holds no JSON object it can use
RiskReplyUnusable == heard.called /\ ~heard.raised /\ ~HeardJson

\* the Case holds what risk_manager writes after such a reply
RiskUnassessed ==
    /\ DangerIsZero
    /\ "risk_critique_tech" \in DOMAIN state /\ state["risk_critique_tech"] = "None"
    /\ "risk_critique_fund" \in DOMAIN state /\ state["risk_critique_fund"] = "None"

\* risk_manager ran on evidence sentences and got such a reply: its debug_log ends
\* at the evidence pre-check, with no entry for an answer of the collaborator
RiskWentUnparsed ==
    /\ EvidenceFound
    /\ "debug_log" \in DOMAIN state
    /\ "LLM Evidence" \notin SeqRange(state["debug_log"])

\* C30: when evidence sentences exist and the reply to risk_manager cannot be
\* parsed, risk_manager writes danger score 0 and both critiques "None" (neither
\* the baseline 25 nor 50), and the Case keeps them; in the rebuttals that follow,
\* the guardrails gated on the danger score act: technical_rebuttal holds a numeric
\* candidate to the 0.90 floor (0 < 35), fundamental_rebuttal restores the initial
\* confidence over a numeric candidate below 70 (0 < 30), and with a catalyst
\* phrase in the news summary it answers without the collaborator (0 < 20).
C30_UnparsedRiskIsZero ==
    /\ (JustRan("risk_manager") /\ EvidenceFound /\ RiskReplyUnusable)
          => RiskUnassessed /\ RiskWentUnparsed
    /\ RiskWentUnparsed => RiskUnassessed
    /\ (JustRan("technical_rebuttal") /\ RiskWentUnparsed
            /\ CandidateIsNumber /\ state["tech_confidence_initial"] # NaN)
          => FloorHolds(state["tech_confidence_final"], state["tech_confidence_initial"])
    /\ (JustRan("fundamental_rebuttal") /\ RiskWentUnparsed
            /\ CandidateIsNumber /\ CandidateBelowCollapse)
          => state["fund_confidence_final"] = state["fund_confidence_initial"]
    /\ (JustRan("fundamental_rebuttal") /\ RiskWentUnparsed
            /\ news_seen.news_data \in NewsWithEarlyCatalyst)
          => /\ llm_calls["fundamental_rebuttal"] = 0
             /\ state["fund_confidence_final"]
                    = AnchoredFloor(state["fund_confidence_initial"])

\* C30 happens: evidence was found, the reply to risk_manager was unusable, the Case
\* went on with danger 0 and critiques "None", and fundamental_rebuttal restored the
\* initial confidence over a candidate below 70
C30_RestoredAfterUnparsedRisk ==
    /\ JustRan("fundamental_rebuttal")
    /\ RiskWentUnparsed /\ RiskUnassessed
    /\ llm_calls["risk_manager"] = 1
    /\ CandidateIsNumber /\ CandidateBelowCollapse
    /\ state["fund_confidence_initial"] # NaN
    /\ Said("final_confidence", JNull).n < state["fund_confidence_initial"]
    /\ state["fund_confidence_final"] = state["fund_confidence_initial"]

====
